---- MODULE Spec2Model ----
(***************************************************************************)
(* Presence registry and event fan-out of the chat backend.                *)
(*                                                                         *)
(* socket/index.js   : onlineUsers, userSockets, the connection handler    *)
(*                     and the per-socket event handlers                   *)
(* socket/chatHandler.js : handleSendMessage, handleEditMessage,           *)
(*                     handleDeleteMessage, handleMarkAsRead,              *)
(*                     notifyParticipants                                  *)
(* models/ChatRoom.js, controllers/chatRoomController.js : the room store  *)
(* models/Message.js : softDelete, editContent                             *)
(* middleware/auth.js : socketAuth, the handshake middleware               *)
(* server.js         : the unhandledRejection handler                      *)
(*                                                                         *)
(* Every await of the code is a suspension point: the part of a handler    *)
(* before an await and the part after it are separate actions.             *)
(***************************************************************************)
EXTENDS Integers, Sequences, FiniteSets, TLC

\* ------------------------------------------------------------------ bounds
MaxConns == 2
NumUsers == 2
MaxReruns == 1
NumRooms == 1
MaxBody == 2
MaxSends == 1
MaxOps == 2
MaxStored == 1
MaxCalls == 2
MaxCasts == 1
MaxParts == 3

Conns == 1..MaxConns
Users == 1..NumUsers
RoomIds == 1..NumRooms
SendIds == 1..MaxSends
OpIds == 1..MaxOps
MsgIds == 1..(MaxStored + MaxSends)
CallIds == 1..MaxCalls

VARIABLES
    onlineUsers,    \* Map socketId -> userId
    userSockets,    \* Map userId -> Set of socketIds
    pc,             \* position of each socket's connection handler
    connected,      \* socket.connected: the transport is open
    socketUser,     \* socket.userId, set by the handshake
    channels,       \* adapter rooms each socket is joined to
    disc,           \* how many times the disconnect handler ran per socket
    offlineWrites,  \* status=offline writes a disconnect handler awaits
    userStatus,     \* persisted User.status
    emitted,        \* per channel, the server->client emissions in order
    wentOnline,     \* per user: registrations that created the user entry
    wentOffline,    \* per user: unregistrations that deleted the user entry
    roomOps,        \* last room:join / room:leave received on each open socket
    rooms,          \* ChatRoom collection: Map roomId -> document
    messages,       \* Message collection, in creation order
    reqs,           \* the message:send handlers in flight
    serving,        \* the HTTP server accepts new connections
    ops,            \* the edit / delete / typing / read handlers, by receipt
    clock,          \* the last value new Date() returned
    lastRead,       \* per room and participant, participants[i].lastRead
    calls           \* the createPrivateChat requests in flight

presenceVars == <<onlineUsers, userSockets, pc, connected, socketUser, disc,
                  offlineWrites, userStatus, wentOnline, wentOffline, serving>>
opVars == <<ops, clock, lastRead>>
chatVars == <<roomOps, rooms, messages, reqs, ops, clock, lastRead, calls>>

vars == <<onlineUsers, userSockets, pc, connected, socketUser, channels,
          disc, offlineWrites, userStatus, emitted, wentOnline, wentOffline,
          roomOps, rooms, messages, reqs, serving, ops, clock, lastRead,
          calls>>

\* ------------------------------------------------------------ JS Map model
EmptyMap == [k \in {} |-> 0]
MapHas(m, k) == k \in DOMAIN m
MapSet(m, k, v) == [x \in (DOMAIN m) \cup {k} |-> IF x = k THEN v ELSE m[x]]
MapDelete(m, k) == [x \in (DOMAIN m) \ {k} |-> m[x]]

\* ------------------------------------------------------- channel names
UserChannel(u) == <<"user", u>>
RoomChannel(r) == <<"room", r>>
Everyone == <<"all", 0>>
Self(c) == <<"self", c>>
Channels ==
    {Everyone} \cup {Self(c) : c \in Conns} \cup {UserChannel(u) : u \in Users}
        \cup {RoomChannel(r) : r \in RoomIds}

\* ------------------------------------------------------- emissions
Event(kind, chan, src, to, user, msg) ==
    [kind |-> kind, chan |-> chan, src |-> src, to |-> to, user |-> user,
     msg |-> msg]

\* io.to(chan).emit(...) and its socket.* variants: the emission is appended
\* to the channel's log
Emit(log, ev) == [log EXCEPT ![ev.chan] = Append(@, ev)]

RECURSIVE EmitAll(_, _)
EmitAll(log, evs) ==
    IF evs = << >> THEN log ELSE EmitAll(Emit(log, Head(evs)), Tail(evs))

\* socket.broadcast.emit: every connected socket of the namespace but src
BroadcastTargets(src) == {d \in Conns : connected[d] /\ d # src}
\* socket.emit: the socket itself, when its transport is still open
SelfTargets(src) == {d \in {src} : connected[d]}

\* ------------------------------------------------------- registry updates
\* onlineUsers.set(socket.id, userId)
RegisterOnline(ou, c, u) == MapSet(ou, c, u)

\* (variant: the user's set is replaced on every connection)
RegisterSocketFresh(us, c, u) == MapSet(us, u, {c})

\* if (!userSockets.has(userId)) userSockets.set(userId, new Set());
\* userSockets.get(userId).add(socket.id);
RegisterSocket(us, c, u) ==
    LET base == IF MapHas(us, u) THEN us ELSE MapSet(us, u, {})
    IN  MapSet(base, u, base[u] \cup {c})

\* (variant: the socket id is left in onlineUsers)
UnregisterOnlineKeep(ou, c) == ou

\* onlineUsers.delete(socket.id)
UnregisterOnline(ou, c) == MapDelete(ou, c)

\* (variant: a missing set counts as an empty one)
IsLastSocketLoose(us, c, u) == ~MapHas(us, u) \/ (us[u] \ {c}) = {}

\* the disconnect handler reached the branch userSocketSet.size === 0
IsLastSocket(us, c, u) == MapHas(us, u) /\ (us[u] \ {c}) = {}

\* (variant: the user's entry is kept when its set becomes empty)
UnregisterSocketKeepKey(us, c, u) ==
    IF ~MapHas(us, u) THEN us ELSE MapSet(us, u, us[u] \ {c})

\* userSocketSet.delete(socket.id); on size 0 userSockets.delete(userId)
UnregisterSocket(us, c, u) ==
    IF ~MapHas(us, u) THEN us
    ELSE IF (us[u] \ {c}) = {} THEN MapDelete(us, u)
    ELSE MapSet(us, u, us[u] \ {c})

\* ------------------------------------------------------- exported helpers
getOnlineUsers == DOMAIN userSockets
isUserOnline(u) == MapHas(userSockets, u)
getUserSockets(u) == IF MapHas(userSockets, u) THEN userSockets[u] ELSE {}

\* ------------------------------------------------------- identifiers
\* ObjectId.prototype.toString(): the id's hex string
IdString(u) == <<"hex", u>>
\* mongoose casting a hex string to an ObjectId
CastId(str) == str[2]
\* the id strings a client can put in a request body
RawIds == {IdString(u) : u \in Users}

\* ------------------------------------------------------- ChatRoom model
Participant(u, role) == [user |-> u, role |-> role]

\* chatRoomSchema.methods.isParticipant
isParticipant(parts, u) ==
    \E i \in DOMAIN parts : IdString(parts[i].user) = IdString(u)

\* ChatRoom.create({type: 'group', participants}): isActive defaults to true,
\* lastMessage is not set
GroupRoom(parts) ==
    [participants |-> parts, lastMessage |-> 0, type |-> "group",
     isActive |-> TRUE, creator |-> parts[1].user]

\* ChatRoom.create({type: 'private', ...}) of findOrCreatePrivateChat
PrivateRoom(u1, u2) ==
    [participants |-> <<Participant(u1, "member"), Participant(u2, "member")>>,
     lastMessage |-> 0, type |-> "private", isActive |-> TRUE,
     creator |-> u1]

\* A 24-digit hex string in upper case: isMongoId accepts it, it is cast to
\* the same ObjectId, and it equals no ObjectId's toString()
UpperString(u) == <<"HEX", u>>
\* the id strings a client can put in the userId of a REST request
RequestIds == RawIds \cup {UpperString(u) : u \in Users}

\* the entries of parts whose user's string is str
EntriesOf(parts, str) == {i \in DOMAIN parts : IdString(parts[i].user) = str}

\* chatRoomSchema.methods.isAdmin: the role of the first entry found
isAdmin(parts, str) ==
    /\ EntriesOf(parts, str) # {}
    /\ parts[CHOOSE i \in EntriesOf(parts, str) :
                \A j \in EntriesOf(parts, str) : i <= j].role = "admin"

\* participants.filter((p) => p.role === 'admin').length
adminCount(parts) ==
    Cardinality({i \in DOMAIN parts : parts[i].role = "admin"})

\* chatRoomSchema.methods.addParticipant
addParticipant(parts, str) ==
    IF EntriesOf(parts, str) # {} THEN parts
    ELSE Append(parts, Participant(CastId(str), "member"))

\* chatRoomSchema.methods.removeParticipant
removeParticipant(parts, str) ==
    SelectSeq(parts, LAMBDA p : IdString(p.user) # str)

\* (variant: nobody is made admin)
promoteFirstOtherNot(parts, str) == parts

\* leaveGroup: the first participant other than the leaver becomes admin
promoteFirstOther(parts, str) ==
    LET others == DOMAIN parts \ EntriesOf(parts, str) IN
    IF others = {} THEN parts
    ELSE [parts EXCEPT ![CHOOSE i \in others : \A j \in others : i <= j].role
                          = "admin"]

\* createGroupChat: the creator as admin, then the body's ids other than
\* the creator's id string, each as member
RECURSIVE FilterBody(_, _)
FilterBody(body, creator) ==
    IF body = << >> THEN << >>
    ELSE LET tail == FilterBody(Tail(body), creator) IN
         IF Head(body) # IdString(creator)
         THEN <<Participant(CastId(Head(body)), "member")>> \o tail
         ELSE tail

participantsList(creator, body) ==
    <<Participant(creator, "admin")>> \o FilterBody(body, creator)

\* ------------------------------------------------------- Message model
\* the content a client sends, the content an edit carries, and the text
\* softDelete puts in its place
SentContent == "sent"
EditContent == "edited"
DeletedContent == "This message has been deleted"

\* Message.create: the schema defaults; a Date that is not set is 0
NewMessage(r, u) ==
    [chatRoom |-> r, sender |-> u, content |-> SentContent,
     isDeleted |-> FALSE, deletedAt |-> 0, isEdited |-> FALSE, editedAt |-> 0]

\* messageSchema.methods.softDelete, at date t
softDelete(doc, t) ==
    [doc EXCEPT !.isDeleted = TRUE, !.deletedAt = t,
                !.content = DeletedContent]

\* messageSchema.methods.editContent, at date t
editContent(doc, newContent, t) ==
    [doc EXCEPT !.content = newContent, !.isEdited = TRUE, !.editedAt = t]

\* ------------------------------------------------------- fan-out targets
\* io.to(channel).emit: the connected sockets joined to the channel
ChannelTargets(chan) == {d \in Conns : connected[d] /\ chan \in channels[d]}

\* (variant: the sender is not skipped)
RECURSIVE NotifyEventsAll(_, _, _)
NotifyEventsAll(parts, sender, m) ==
    IF parts = << >> THEN << >>
    ELSE LET p == Head(parts).user IN
         <<Event("notification:message", UserChannel(p), 0,
                 ChannelTargets(UserChannel(p)), p, m)>>
             \o NotifyEventsAll(Tail(parts), sender, m)

\* notifyParticipants' loop: one notification:message per participant entry
\* whose id differs from the sender's
RECURSIVE NotifyEvents(_, _, _)
NotifyEvents(parts, sender, m) ==
    IF parts = << >> THEN << >>
    ELSE LET p == Head(parts).user
             tail == NotifyEvents(Tail(parts), sender, m)
         IN  IF IdString(p) = IdString(sender) THEN tail
             ELSE <<Event("notification:message", UserChannel(p), 0,
                          ChannelTargets(UserChannel(p)), p, m)>> \o tail

\* ------------------------------------------------------------------ Init
NoReq == [pc |-> "unused", conn |-> 0, room |-> 0, doc |-> << >>, msg |-> 0]

\* a handler slot nothing was received for; loaded is the document the
\* handler's findById returned, at is where its room emission went
NoDoc == [none |-> TRUE]
\* a createPrivateChat request nothing was received for
NoCall == [pc |-> "unused", user |-> 0, other |-> 0, room |-> 0]

NoOp == [pc |-> "unused", kind |-> "none", conn |-> 0, room |-> 0, msg |-> 0,
         loaded |-> NoDoc, doc |-> NoDoc, error |-> "", at |-> 0,
         before |-> {}]


Init ==
    /\ onlineUsers = EmptyMap
    /\ userSockets = EmptyMap
    /\ pc = [c \in Conns |-> "idle"]
    /\ connected = [c \in Conns |-> FALSE]
    /\ socketUser = [c \in Conns |-> 0]
    /\ channels = [c \in Conns |-> {}]
    /\ disc = [c \in Conns |-> 0]
    /\ offlineWrites = [c \in Conns |-> 0]
    /\ userStatus = [u \in Users |-> "offline"]
    /\ emitted = [ch \in Channels |-> << >>]
    /\ wentOnline = [u \in Users |-> 0]
    /\ wentOffline = [u \in Users |-> 0]
    /\ roomOps = [c \in Conns |-> [r \in RoomIds |-> "none"]]
    /\ rooms = EmptyMap
    /\ messages = << >>
    /\ reqs = [q \in SendIds |-> NoReq]
    /\ serving = TRUE
    /\ ops = [o \in OpIds |-> NoOp]
    /\ clock = 0
    /\ lastRead = [r \in RoomIds |-> [u \in Users |-> 0]]
    /\ calls = [k \in CallIds |-> NoCall]

\* --------------------------------------------------------- handshake
\* what a client can put in handshake.auth.token: nothing, a string
\* jwt.verify rejects, or a signed token naming a user id; the id after the
\* last user's is the id of no user
NoToken == <<"none", 0>>
BadToken == <<"bad", 0>>
Token(id) == <<"jwt", id>>
Credentials == {NoToken, BadToken} \cup {Token(id) : id \in 1..(NumUsers + 1)}

\* socketAuth: the error handed to next(), "" when the socket is admitted;
\* stored tells whether User.findById resolved (it rejects otherwise)
socketAuth(cred, stored) ==
    IF cred = NoToken
    THEN [error |-> "Authentication required", userId |-> 0]
    ELSE IF cred[1] # "jwt" \/ ~stored
    THEN [error |-> "Invalid token", userId |-> 0]
    ELSE IF cred[2] \notin Users
    THEN [error |-> "User not found", userId |-> 0]
    ELSE [error |-> "", userId |-> cred[2]]

\* (variant: the socket is registered before the middleware refuses it)
HandshakeRefusedLate(c, cred, stored) ==
    /\ serving
    /\ pc[c] = "idle"
    /\ \A d \in Conns : d < c => pc[d] # "idle"
    /\ socketAuth(cred, stored).error # ""
    /\ pc' = [pc EXCEPT ![c] = "refused"]
    /\ onlineUsers' = RegisterOnline(onlineUsers, c, 1)
    /\ UNCHANGED <<userSockets, connected, socketUser, channels, disc,
                   offlineWrites, userStatus, emitted, wentOnline,
                   wentOffline, serving>>
    /\ UNCHANGED chatVars

\* io.use(socketAuth) called next(error): the connection is closed, the
\* connection handler is not called for it
HandshakeRefused(c, cred, stored) ==
    /\ serving
    /\ pc[c] = "idle"
    /\ \A d \in Conns : d < c => pc[d] # "idle"
    /\ socketAuth(cred, stored).error # ""
    /\ pc' = [pc EXCEPT ![c] = "refused"]
    /\ UNCHANGED <<onlineUsers, userSockets, connected, socketUser, channels,
                   disc, offlineWrites, userStatus, emitted, wentOnline,
                   wentOffline, serving>>
    /\ UNCHANGED chatVars

\* --------------------------------------------------- connection handler
\* io.on('connection'): the handshake admitted user u on a fresh socket c.
\* Runs up to the await of the status write.
Connect(c, u) ==
    /\ serving
    /\ pc[c] = "idle"
    /\ \A d \in Conns : d < c => pc[d] # "idle"
    /\ socketUser' = [socketUser EXCEPT ![c] = u]
    /\ connected' = [connected EXCEPT ![c] = TRUE]
    /\ onlineUsers' = RegisterOnline(onlineUsers, c, u)
    /\ userSockets' = RegisterSocket(userSockets, c, u)
    /\ wentOnline' = [wentOnline EXCEPT
                        ![u] = IF MapHas(userSockets, u) THEN @ ELSE @ + 1]
    /\ pc' = [pc EXCEPT ![c] = "awaitOnline"]
    /\ UNCHANGED <<channels, disc, offlineWrites, userStatus, emitted,
                   wentOffline, serving>>
    /\ UNCHANGED chatVars

\* The status=online write resolved: join the private channel, broadcast
\* user:online, send users:online, install the event handlers.
OnlineWriteDone(c) ==
    /\ pc[c] = "awaitOnline"
    /\ LET u == socketUser[c] IN
        /\ userStatus' = [userStatus EXCEPT ![u] = "online"]
        /\ channels' = [channels EXCEPT ![c] = @ \cup {UserChannel(u)}]
        /\ emitted' = EmitAll(emitted,
                 << Event("user:online", Everyone, c, BroadcastTargets(c), u, 0),
                    Event("users:online", Self(c), c, SelfTargets(c),
                          getOnlineUsers, 0) >>)
    /\ pc' = [pc EXCEPT ![c] = "ready"]
    /\ UNCHANGED <<onlineUsers, userSockets, connected, socketUser, disc,
                   offlineWrites, wentOnline, wentOffline, serving>>
    /\ UNCHANGED chatVars

\* The status=online write rejected: the async connection handler ends
\* there, nothing after the await runs.  Nothing catches the rejection:
\* process.on('unhandledRejection') closes the HTTP server, and the process
\* exits when the open connections have ended.
OnlineWriteFail(c) ==
    /\ pc[c] = "awaitOnline"
    /\ pc' = [pc EXCEPT ![c] = "failed"]
    /\ serving' = FALSE
    /\ UNCHANGED <<onlineUsers, userSockets, connected, socketUser, channels,
                   disc, offlineWrites, userStatus, emitted, wentOnline,
                   wentOffline>>
    /\ UNCHANGED chatVars

\* --------------------------------------------------- disconnect handler
\* socket.on('disconnect'), up to the await of the status write
DisconnectHandler(c) ==
    LET u == socketUser[c] IN
    /\ onlineUsers' = UnregisterOnline(onlineUsers, c)
    /\ userSockets' = UnregisterSocket(userSockets, c, u)
    /\ offlineWrites' = [offlineWrites EXCEPT
                           ![c] = IF IsLastSocket(userSockets, c, u)
                                  THEN @ + 1 ELSE @]
    /\ wentOffline' = [wentOffline EXCEPT
                           ![u] = IF IsLastSocket(userSockets, c, u)
                                  THEN @ + 1 ELSE @]
    /\ disc' = [disc EXCEPT ![c] = @ + 1]

\* The transport of socket c closes.  The socket leaves every channel and
\* the 'disconnect' event is emitted; its listener exists only once the
\* connection handler got past its await.
ClientClose(c) ==
    /\ connected[c]
    /\ connected' = [connected EXCEPT ![c] = FALSE]
    /\ channels' = [channels EXCEPT ![c] = {}]
    /\ IF pc[c] = "ready"
       THEN DisconnectHandler(c)
       ELSE UNCHANGED <<onlineUsers, userSockets, offlineWrites, wentOffline,
                        disc>>
    /\ roomOps' = [roomOps EXCEPT ![c] = [r \in RoomIds |-> "none"]]
    /\ UNCHANGED <<pc, socketUser, userStatus, emitted, wentOnline, serving>>
    /\ UNCHANGED <<rooms, messages, reqs, ops, clock, lastRead, calls>>

\* The status=offline write resolved: broadcast user:offline
OfflineWriteDone(c) ==
    /\ offlineWrites[c] > 0
    /\ offlineWrites' = [offlineWrites EXCEPT ![c] = @ - 1]
    /\ userStatus' = [userStatus EXCEPT ![socketUser[c]] = "offline"]
    /\ emitted' = Emit(emitted,
            Event("user:offline", Everyone, c, BroadcastTargets(c),
                  socketUser[c], 0))
    /\ UNCHANGED <<onlineUsers, userSockets, pc, connected, socketUser,
                   channels, disc, wentOnline, wentOffline, serving>>
    /\ UNCHANGED chatVars

\* The status=offline write rejected: the handler ends without broadcast,
\* its rejection unhandled as well
OfflineWriteFail(c) ==
    /\ offlineWrites[c] > 0
    /\ offlineWrites' = [offlineWrites EXCEPT ![c] = @ - 1]
    /\ serving' = FALSE
    /\ UNCHANGED <<onlineUsers, userSockets, pc, connected, socketUser,
                   channels, disc, userStatus, emitted, wentOnline,
                   wentOffline>>
    /\ UNCHANGED chatVars

\* how many times the disconnect logic ran again for a socket
Reruns(c) == IF disc[c] > 1 THEN disc[c] - 1 ELSE 0

RECURSIVE TotalReruns(_)
TotalReruns(n) == IF n = 0 THEN 0 ELSE Reruns(n) + TotalReruns(n - 1)

\* The disconnect logic runs once more for a socket it already ran for
\* (disconnect racing with teardown).
DisconnectAgain(c) ==
    /\ disc[c] >= 1
    /\ TotalReruns(MaxConns) < MaxReruns
    /\ DisconnectHandler(c)
    /\ UNCHANGED <<pc, connected, socketUser, channels, userStatus, emitted,
                   wentOnline, serving>>
    /\ UNCHANGED chatVars

\* ------------------------------------------------------- room store
BodyLists == UNION {[1..n -> RawIds] : n \in 0..MaxBody}

\* createGroupChat (REST): ChatRoom.create with the creator and the body's
\* participants
CreateGroupChat(creator, body) ==
    /\ Cardinality(DOMAIN rooms) < NumRooms
    /\ rooms' = MapSet(rooms, Cardinality(DOMAIN rooms) + 1,
                       GroupRoom(participantsList(creator, body)))
    /\ UNCHANGED <<roomOps, messages, reqs, channels, emitted>>
    /\ UNCHANGED presenceVars
    /\ UNCHANGED calls
    /\ UNCHANGED opVars

\* ------------------------------------------------------- room channels
HandlersLive(c) == pc[c] = "ready" /\ connected[c]

\* (variant: only a participant's socket enters the channel)
RoomJoinMembers(c, r) ==
    /\ HandlersLive(c)
    /\ channels' = [channels EXCEPT ![c] =
                       IF /\ MapHas(rooms, r)
                          /\ isParticipant(rooms[r].participants, socketUser[c])
                       THEN @ \cup {RoomChannel(r)} ELSE @]
    /\ roomOps' = [roomOps EXCEPT ![c][r] = "join"]
    /\ UNCHANGED <<rooms, messages, reqs, emitted>>
    /\ UNCHANGED presenceVars
    /\ UNCHANGED calls
    /\ UNCHANGED opVars

\* socket.on('room:join'): no membership check
RoomJoin(c, r) ==
    /\ HandlersLive(c)
    /\ channels' = [channels EXCEPT ![c] = @ \cup {RoomChannel(r)}]
    /\ roomOps' = [roomOps EXCEPT ![c][r] = "join"]
    /\ UNCHANGED <<rooms, messages, reqs, emitted>>
    /\ UNCHANGED presenceVars
    /\ UNCHANGED calls
    /\ UNCHANGED opVars

\* (variant: the socket stays in the channel)
RoomLeaveKeep(c, r) ==
    /\ HandlersLive(c)
    /\ roomOps' = [roomOps EXCEPT ![c][r] = "leave"]
    /\ UNCHANGED <<rooms, messages, reqs, emitted, channels>>
    /\ UNCHANGED presenceVars
    /\ UNCHANGED calls
    /\ UNCHANGED opVars

\* socket.on('room:leave')
RoomLeave(c, r) ==
    /\ HandlersLive(c)
    /\ channels' = [channels EXCEPT ![c] = @ \ {RoomChannel(r)}]
    /\ roomOps' = [roomOps EXCEPT ![c][r] = "leave"]
    /\ UNCHANGED <<rooms, messages, reqs, emitted>>
    /\ UNCHANGED presenceVars
    /\ UNCHANGED calls
    /\ UNCHANGED opVars

\* ------------------------------------------------------- message:send
ErrorEvent(c) == Event("error", Self(c), c, SelfTargets(c), 0, 0)

\* socket.on('message:send') received on socket c for room id r:
\* handleSendMessage runs up to await ChatRoom.findById
MessageSend(q, c, r) ==
    /\ HandlersLive(c)
    /\ reqs[q].pc = "unused"
    /\ \A k \in SendIds : k < q => reqs[k].pc # "unused"
    /\ reqs' = [reqs EXCEPT ![q] = [NoReq EXCEPT !.pc = "findRoom",
                                                 !.conn = c, !.room = r]]
    /\ UNCHANGED <<roomOps, rooms, messages, channels, emitted>>
    /\ UNCHANGED presenceVars
    /\ UNCHANGED calls
    /\ UNCHANGED opVars

\* findById resolved: not found or not a participant throws, the handler's
\* catch emits error; otherwise Message.create is awaited
SendRoomFound(q) ==
    /\ reqs[q].pc = "findRoom"
    /\ LET r == reqs[q].room
           u == socketUser[reqs[q].conn]
       IN  IF MapHas(rooms, r) /\ isParticipant(rooms[r].participants, u)
           THEN /\ reqs' = [reqs EXCEPT ![q].pc = "create",
                                        ![q].doc = rooms[r].participants]
                /\ UNCHANGED emitted
           ELSE /\ reqs' = [reqs EXCEPT ![q].pc = "rejected"]
                /\ emitted' = Emit(emitted, ErrorEvent(reqs[q].conn))
    /\ UNCHANGED <<roomOps, rooms, messages, channels>>
    /\ UNCHANGED presenceVars
    /\ UNCHANGED calls
    /\ UNCHANGED opVars

\* Message.create resolved: the message is stored; chatRoom.save is awaited
SendCreated(q) ==
    /\ reqs[q].pc = "create"
    /\ messages' = Append(messages,
                          NewMessage(reqs[q].room, socketUser[reqs[q].conn]))
    /\ reqs' = [reqs EXCEPT ![q].pc = "saveRoom",
                            ![q].msg = Len(messages) + 1]
    /\ UNCHANGED <<roomOps, rooms, channels, emitted>>
    /\ UNCHANGED presenceVars
    /\ UNCHANGED calls
    /\ UNCHANGED opVars

\* (variant: saving the room also marks it read by the sender)
SendRoomSavedRead(q) ==
    /\ reqs[q].pc = "saveRoom"
    /\ rooms' = [rooms EXCEPT ![reqs[q].room].lastMessage = reqs[q].msg]
    /\ lastRead' = [lastRead EXCEPT
                       ![reqs[q].room][messages[reqs[q].msg].sender] = clock + 1]
    /\ reqs' = [reqs EXCEPT ![q].pc = "populate"]
    /\ UNCHANGED <<roomOps, messages, channels, emitted>>
    /\ UNCHANGED presenceVars
    /\ UNCHANGED calls
    /\ UNCHANGED <<ops, clock>>

\* (variant: the participants are notified as soon as the room is saved)
SendRoomSavedNotifies(q) ==
    /\ reqs[q].pc = "saveRoom"
    /\ rooms' = [rooms EXCEPT ![reqs[q].room].lastMessage = reqs[q].msg]
    /\ reqs' = [reqs EXCEPT ![q].pc = "populate"]
    /\ emitted' = EmitAll(emitted,
            NotifyEvents(rooms[reqs[q].room].participants,
                         messages[reqs[q].msg].sender, reqs[q].msg))
    /\ UNCHANGED <<roomOps, messages, channels>>
    /\ UNCHANGED presenceVars
    /\ UNCHANGED calls
    /\ UNCHANGED opVars

\* chatRoom.save resolved: lastMessage is stored; populate is awaited
SendRoomSaved(q) ==
    /\ reqs[q].pc = "saveRoom"
    /\ rooms' = [rooms EXCEPT ![reqs[q].room].lastMessage = reqs[q].msg]
    /\ reqs' = [reqs EXCEPT ![q].pc = "populate"]
    /\ UNCHANGED <<roomOps, messages, channels, emitted>>
    /\ UNCHANGED presenceVars
    /\ UNCHANGED calls
    /\ UNCHANGED opVars

\* (variant: message:new is sent back to the sending socket only)
SendPopulatedToSelf(q) ==
    /\ reqs[q].pc = "populate"
    /\ emitted' = Emit(emitted,
            Event("message:new", Self(reqs[q].conn), reqs[q].conn,
                  SelfTargets(reqs[q].conn),
                  socketUser[reqs[q].conn], reqs[q].msg))
    /\ reqs' = [reqs EXCEPT ![q].pc = "notifyFind"]
    /\ UNCHANGED <<roomOps, rooms, messages, channels>>
    /\ UNCHANGED presenceVars
    /\ UNCHANGED calls
    /\ UNCHANGED opVars

\* populate resolved, handleSendMessage returns: message:new goes to the
\* room channel and notifyParticipants starts (not awaited), running up to
\* its own await ChatRoom.findById
SendPopulated(q) ==
    /\ reqs[q].pc = "populate"
    /\ emitted' = Emit(emitted,
            Event("message:new", RoomChannel(reqs[q].room), 0,
                  ChannelTargets(RoomChannel(reqs[q].room)),
                  socketUser[reqs[q].conn], reqs[q].msg))
    /\ reqs' = [reqs EXCEPT ![q].pc = "notifyFind"]
    /\ UNCHANGED <<roomOps, rooms, messages, channels>>
    /\ UNCHANGED presenceVars
    /\ UNCHANGED calls
    /\ UNCHANGED opVars

\* One of handleSendMessage's awaits rejected: the catch emits error
SendFail(q) ==
    /\ reqs[q].pc \in {"findRoom", "create", "saveRoom", "populate"}
    /\ reqs' = [reqs EXCEPT ![q].pc = "rejected"]
    /\ emitted' = Emit(emitted, ErrorEvent(reqs[q].conn))
    /\ UNCHANGED <<roomOps, rooms, messages, channels>>
    /\ UNCHANGED presenceVars
    /\ UNCHANGED calls
    /\ UNCHANGED opVars

\* notifyParticipants: findById resolved; no room returns, otherwise the
\* loop over chatRoom.participants emits the notifications
NotifyRoomFound(q) ==
    /\ reqs[q].pc = "notifyFind"
    /\ LET r == reqs[q].room IN
       IF MapHas(rooms, r)
       THEN /\ emitted' = EmitAll(emitted,
                   NotifyEvents(rooms[r].participants,
                                messages[reqs[q].msg].sender, reqs[q].msg))
            /\ reqs' = [reqs EXCEPT ![q].pc = "notified",
                                    ![q].doc = rooms[r].participants]
       ELSE /\ reqs' = [reqs EXCEPT ![q].pc = "notifySkipped"]
            /\ UNCHANGED emitted
    /\ UNCHANGED <<roomOps, rooms, messages, channels>>
    /\ UNCHANGED presenceVars
    /\ UNCHANGED calls
    /\ UNCHANGED opVars

\* (variant: the failure is reported to the sender)
NotifyFailLoud(q) ==
    /\ reqs[q].pc = "notifyFind"
    /\ reqs' = [reqs EXCEPT ![q].pc = "notifySkipped"]
    /\ emitted' = Emit(emitted, ErrorEvent(reqs[q].conn))
    /\ UNCHANGED <<roomOps, rooms, messages, channels>>
    /\ UNCHANGED presenceVars
    /\ UNCHANGED calls
    /\ UNCHANGED opVars

\* notifyParticipants: findById rejected; the catch logs and returns
NotifyFail(q) ==
    /\ reqs[q].pc = "notifyFind"
    /\ reqs' = [reqs EXCEPT ![q].pc = "notifySkipped"]
    /\ UNCHANGED <<roomOps, rooms, messages, channels, emitted>>
    /\ UNCHANGED presenceVars
    /\ UNCHANGED calls
    /\ UNCHANGED opVars

\* ------------------------------------------------- edit, delete, typing, read
\* the client events the server has received so far
Received ==
    Cardinality({q \in SendIds : reqs[q].pc # "unused"})
        + Cardinality({o \in OpIds : ops[o].pc # "unused"})

\* new Date(): the time of the last reading or a later one
Dates == {clock, clock + 1}

\* a listener of socket c is called with a client event: the next handler
\* slot records it, and the message:send events received before it
Receive(o, kind, c, r, m, at) ==
    [NoOp EXCEPT !.pc = at, !.kind = kind, !.conn = c, !.room = r, !.msg = m,
                 !.before = {q \in SendIds : reqs[q].pc # "unused"}]

CanReceive(o, c) ==
    /\ HandlersLive(c)
    /\ ops[o].pc = "unused"
    /\ \A k \in OpIds : k < o => ops[k].pc # "unused"

\* (variant: the error event is emitted twice)
RejectTwice(o, text) ==
    /\ ops' = [ops EXCEPT ![o].pc = "rejected", ![o].error = text]
    /\ emitted' = EmitAll(emitted, <<ErrorEvent(ops[o].conn),
                                     ErrorEvent(ops[o].conn)>>)

\* the catch of a socket.on handler: socket.emit('error', {message})
Reject(o, text) ==
    /\ ops' = [ops EXCEPT ![o].pc = "rejected", ![o].error = text]
    /\ emitted' = Emit(emitted, ErrorEvent(ops[o].conn))

\* socket.on('message:edit') received on socket c for message id m:
\* handleEditMessage runs up to await Message.findById
MessageEdit(o, c, m) ==
    /\ CanReceive(o, c)
    /\ ops' = [ops EXCEPT ![o] = Receive(o, "message:edit", c, 0, m, "editFind")]
    /\ UNCHANGED <<roomOps, rooms, messages, reqs, channels, emitted, clock,
                   lastRead>>
    /\ UNCHANGED presenceVars
    /\ UNCHANGED calls

\* (variant: anybody may edit)
EditLoadedAnyone(o) ==
    /\ ops[o].pc = "editFind"
    /\ LET m == ops[o].msg IN
       IF m \notin DOMAIN messages
       THEN Reject(o, "Message not found") /\ UNCHANGED clock
       ELSE IF messages[m].isDeleted
       THEN Reject(o, "Cannot edit deleted message") /\ UNCHANGED clock
       ELSE \E t \in Dates :
               /\ ops' = [ops EXCEPT
                     ![o].pc = "editSave", ![o].loaded = messages[m],
                     ![o].room = messages[m].chatRoom,
                     ![o].doc = editContent(messages[m], EditContent, t)]
               /\ clock' = t
               /\ UNCHANGED emitted
    /\ UNCHANGED <<roomOps, rooms, messages, reqs, channels, lastRead>>
    /\ UNCHANGED presenceVars
    /\ UNCHANGED calls

\* (variant: a deleted message may be edited)
EditLoadedDeleted(o) ==
    /\ ops[o].pc = "editFind"
    /\ LET m == ops[o].msg
           u == socketUser[ops[o].conn]
       IN  IF m \notin DOMAIN messages
           THEN Reject(o, "Message not found") /\ UNCHANGED clock
           ELSE IF IdString(messages[m].sender) # IdString(u)
           THEN Reject(o, "You can only edit your own messages")
                /\ UNCHANGED clock
           ELSE \E t \in Dates :
                   /\ ops' = [ops EXCEPT
                         ![o].pc = "editSave", ![o].loaded = messages[m],
                         ![o].room = messages[m].chatRoom,
                         ![o].doc = editContent(messages[m], EditContent, t)]
                   /\ clock' = t
                   /\ UNCHANGED emitted
    /\ UNCHANGED <<roomOps, rooms, messages, reqs, channels, lastRead>>
    /\ UNCHANGED presenceVars
    /\ UNCHANGED calls

\* findById resolved: no message, another user's message and a deleted
\* message throw; otherwise editContent changes the loaded document and
\* message.save is awaited
EditLoaded(o) ==
    /\ ops[o].pc = "editFind"
    /\ LET m == ops[o].msg
           u == socketUser[ops[o].conn]
       IN  IF m \notin DOMAIN messages
           THEN Reject(o, "Message not found") /\ UNCHANGED clock
           ELSE IF IdString(messages[m].sender) # IdString(u)
           THEN Reject(o, "You can only edit your own messages")
                /\ UNCHANGED clock
           ELSE IF messages[m].isDeleted
           THEN Reject(o, "Cannot edit deleted message") /\ UNCHANGED clock
           ELSE \E t \in Dates :
                   /\ ops' = [ops EXCEPT
                         ![o].pc = "editSave", ![o].loaded = messages[m],
                         ![o].room = messages[m].chatRoom,
                         ![o].doc = editContent(messages[m], EditContent, t)]
                   /\ clock' = t
                   /\ UNCHANGED emitted
    /\ UNCHANGED <<roomOps, rooms, messages, reqs, channels, lastRead>>
    /\ UNCHANGED presenceVars
    /\ UNCHANGED calls

\* message.save resolved: the paths editContent modified are stored;
\* populate is awaited
EditSaved(o) ==
    /\ ops[o].pc = "editSave"
    /\ messages' = [messages EXCEPT
                       ![ops[o].msg].content = ops[o].doc.content,
                       ![ops[o].msg].isEdited = ops[o].doc.isEdited,
                       ![ops[o].msg].editedAt = ops[o].doc.editedAt]
    /\ ops' = [ops EXCEPT ![o].pc = "editPopulate"]
    /\ UNCHANGED <<roomOps, rooms, reqs, channels, emitted, clock, lastRead>>
    /\ UNCHANGED presenceVars
    /\ UNCHANGED calls

\* populate resolved, handleEditMessage returns: message:edited goes to the
\* channel of message.chatRoom
EditPopulated(o) ==
    /\ ops[o].pc = "editPopulate"
    /\ LET ch == RoomChannel(ops[o].doc.chatRoom) IN
        /\ emitted' = Emit(emitted,
                Event("message:edited", ch, 0, ChannelTargets(ch),
                      ops[o].doc.sender, ops[o].msg))
        /\ ops' = [ops EXCEPT ![o].pc = "done",
                              ![o].at = Len(emitted[ch]) + 1]
    /\ UNCHANGED <<roomOps, rooms, messages, reqs, channels, clock, lastRead>>
    /\ UNCHANGED presenceVars
    /\ UNCHANGED calls

\* One of handleEditMessage's awaits rejected: the catch emits error
EditFail(o) ==
    /\ ops[o].pc \in {"editFind", "editSave", "editPopulate"}
    /\ Reject(o, "rejected await")
    /\ UNCHANGED <<roomOps, rooms, messages, reqs, channels, clock, lastRead>>
    /\ UNCHANGED presenceVars
    /\ UNCHANGED calls

\* socket.on('message:delete') received on socket c for message id m:
\* handleDeleteMessage runs up to await Message.findById
MessageDelete(o, c, m) ==
    /\ CanReceive(o, c)
    /\ ops' = [ops EXCEPT
                  ![o] = Receive(o, "message:delete", c, 0, m, "deleteFind")]
    /\ UNCHANGED <<roomOps, rooms, messages, reqs, channels, emitted, clock,
                   lastRead>>
    /\ UNCHANGED presenceVars
    /\ UNCHANGED calls

\* findById resolved: no message and another user's message throw; otherwise
\* softDelete changes the loaded document and message.save is awaited
DeleteLoaded(o) ==
    /\ ops[o].pc = "deleteFind"
    /\ LET m == ops[o].msg
           u == socketUser[ops[o].conn]
       IN  IF m \notin DOMAIN messages
           THEN Reject(o, "Message not found") /\ UNCHANGED clock
           ELSE IF IdString(messages[m].sender) # IdString(u)
           THEN Reject(o, "You can only delete your own messages")
                /\ UNCHANGED clock
           ELSE \E t \in Dates :
                   /\ ops' = [ops EXCEPT
                         ![o].pc = "deleteSave", ![o].loaded = messages[m],
                         ![o].room = messages[m].chatRoom,
                         ![o].doc = softDelete(messages[m], t)]
                   /\ clock' = t
                   /\ UNCHANGED emitted
    /\ UNCHANGED <<roomOps, rooms, messages, reqs, channels, lastRead>>
    /\ UNCHANGED presenceVars
    /\ UNCHANGED calls

\* message.save resolved: the paths softDelete modified are stored,
\* handleDeleteMessage returns and message:deleted goes to the channel of
\* the message's room
DeleteSaved(o) ==
    /\ ops[o].pc = "deleteSave"
    /\ messages' = [messages EXCEPT
                       ![ops[o].msg].isDeleted = ops[o].doc.isDeleted,
                       ![ops[o].msg].deletedAt = ops[o].doc.deletedAt,
                       ![ops[o].msg].content = ops[o].doc.content]
    /\ LET ch == RoomChannel(ops[o].room) IN
        /\ emitted' = Emit(emitted,
                Event("message:deleted", ch, 0, ChannelTargets(ch),
                      ops[o].doc.sender, ops[o].msg))
        /\ ops' = [ops EXCEPT ![o].pc = "done",
                              ![o].at = Len(emitted[ch]) + 1]
    /\ UNCHANGED <<roomOps, rooms, reqs, channels, clock, lastRead>>
    /\ UNCHANGED presenceVars
    /\ UNCHANGED calls

\* One of handleDeleteMessage's awaits rejected: the catch emits error
DeleteFail(o) ==
    /\ ops[o].pc \in {"deleteFind", "deleteSave"}
    /\ Reject(o, "rejected await")
    /\ UNCHANGED <<roomOps, rooms, messages, reqs, channels, clock, lastRead>>
    /\ UNCHANGED presenceVars
    /\ UNCHANGED calls

\* socket.to(channel).emit: the channel's connected sockets but src
RoomCastTargets(chan, src) == ChannelTargets(chan) \ {src}

\* socket.on('typing:start'): emitted at once, nothing is looked up
TypingStart(o, c, r) ==
    /\ CanReceive(o, c)
    /\ LET ch == RoomChannel(r) IN
        /\ emitted' = Emit(emitted,
                Event("typing:start", ch, c, RoomCastTargets(ch, c),
                      socketUser[c], 0))
        /\ ops' = [ops EXCEPT
              ![o] = [Receive(o, "typing:start", c, r, 0, "done")
                         EXCEPT !.at = Len(emitted[ch]) + 1]]
    /\ UNCHANGED <<roomOps, rooms, messages, reqs, channels, clock, lastRead>>
    /\ UNCHANGED presenceVars
    /\ UNCHANGED calls

\* socket.on('typing:stop'): emitted at once, nothing is looked up
TypingStop(o, c, r) ==
    /\ CanReceive(o, c)
    /\ LET ch == RoomChannel(r) IN
        /\ emitted' = Emit(emitted,
                Event("typing:stop", ch, c, RoomCastTargets(ch, c),
                      socketUser[c], 0))
        /\ ops' = [ops EXCEPT
              ![o] = [Receive(o, "typing:stop", c, r, 0, "done")
                         EXCEPT !.at = Len(emitted[ch]) + 1]]
    /\ UNCHANGED <<roomOps, rooms, messages, reqs, channels, clock, lastRead>>
    /\ UNCHANGED presenceVars
    /\ UNCHANGED calls

\* socket.on('messages:read') received on socket c for room id r:
\* handleMarkAsRead runs up to await ChatRoom.findById
MessagesRead(o, c, r) ==
    /\ CanReceive(o, c)
    /\ ops' = [ops EXCEPT
                  ![o] = Receive(o, "messages:read", c, r, 0, "readFind")]
    /\ UNCHANGED <<roomOps, rooms, messages, reqs, channels, emitted, clock,
                   lastRead>>
    /\ UNCHANGED presenceVars
    /\ UNCHANGED calls

\* findById resolved: no room and a user who is no participant throw;
\* otherwise updateLastRead changes the loaded document and chatRoom.save is
\* awaited
ReadRoomFound(o) ==
    /\ ops[o].pc = "readFind"
    /\ LET r == ops[o].room
           u == socketUser[ops[o].conn]
       IN  IF ~MapHas(rooms, r)
           THEN Reject(o, "Chat room not found") /\ UNCHANGED clock
           ELSE IF ~isParticipant(rooms[r].participants, u)
           THEN Reject(o, "You are not a member of this chat room")
                /\ UNCHANGED clock
           ELSE \E t \in Dates :
                   /\ ops' = [ops EXCEPT ![o].pc = "readSave",
                                         ![o].loaded = rooms[r],
                                         ![o].doc = [lastRead |-> t]]
                   /\ clock' = t
                   /\ UNCHANGED emitted
    /\ UNCHANGED <<roomOps, rooms, messages, reqs, channels, lastRead>>
    /\ UNCHANGED presenceVars
    /\ UNCHANGED calls

\* (variant: messages:read goes to every socket of the room channel)
ReadSavedEcho(o) ==
    /\ ops[o].pc = "readSave"
    /\ LET ch == RoomChannel(ops[o].room)
           c == ops[o].conn
       IN
        /\ lastRead' = [lastRead EXCEPT
                           ![ops[o].room][socketUser[c]] = ops[o].doc.lastRead]
        /\ emitted' = Emit(emitted,
                Event("messages:read", ch, c, ChannelTargets(ch),
                      socketUser[c], 0))
        /\ ops' = [ops EXCEPT ![o].pc = "done",
                              ![o].at = Len(emitted[ch]) + 1]
    /\ UNCHANGED <<roomOps, rooms, messages, reqs, channels, clock>>
    /\ UNCHANGED presenceVars
    /\ UNCHANGED calls

\* chatRoom.save resolved: the participant's lastRead is stored and
\* messages:read goes to the room channel's other sockets
ReadSaved(o) ==
    /\ ops[o].pc = "readSave"
    /\ LET ch == RoomChannel(ops[o].room)
           c == ops[o].conn
       IN
        /\ lastRead' = [lastRead EXCEPT
                           ![ops[o].room][socketUser[c]] = ops[o].doc.lastRead]
        /\ emitted' = Emit(emitted,
                Event("messages:read", ch, c, RoomCastTargets(ch, c),
                      socketUser[c], 0))
        /\ ops' = [ops EXCEPT ![o].pc = "done",
                              ![o].at = Len(emitted[ch]) + 1]
    /\ UNCHANGED <<roomOps, rooms, messages, reqs, channels, clock>>
    /\ UNCHANGED presenceVars
    /\ UNCHANGED calls

\* One of handleMarkAsRead's awaits rejected: the catch emits error
ReadFail(o) ==
    /\ ops[o].pc \in {"readFind", "readSave"}
    /\ Reject(o, "rejected await")
    /\ UNCHANGED <<roomOps, rooms, messages, reqs, channels, clock, lastRead>>
    /\ UNCHANGED presenceVars
    /\ UNCHANGED calls

\* ------------------------------------------------------- REST: rooms
\* the room ids a REST request can name
RestRoomIds == 1..(NumRooms + MaxCalls)

\* createPrivateChat received from user me with body.userId = str: the
\* caller's own id string is refused, otherwise findOne is awaited
PrivateChat(k, me, str) ==
    /\ calls[k].pc = "unused"
    /\ calls' = [calls EXCEPT ![k] =
            [pc |-> IF str = IdString(me) THEN "rejected" ELSE "find",
             user |-> me, other |-> str, room |-> 0]]
    /\ UNCHANGED <<roomOps, rooms, messages, reqs, channels, emitted>>
    /\ UNCHANGED presenceVars
    /\ UNCHANGED opVars

\* The private rooms of exactly two entries that hold u1 and u2
PrivateRoomsOf(u1, u2) ==
    {r \in DOMAIN rooms :
        /\ rooms[r].type = "private"
        /\ Len(rooms[r].participants) = 2
        /\ \E i \in 1..2 : rooms[r].participants[i].user = u1
        /\ \E i \in 1..2 : rooms[r].participants[i].user = u2}

\* findOne resolved: a room found is the answer, otherwise create is awaited
PrivateFound(k) ==
    /\ calls[k].pc = "find"
    /\ LET found == PrivateRoomsOf(calls[k].user, CastId(calls[k].other)) IN
          IF found = {}
          THEN calls' = [calls EXCEPT ![k].pc = "create"]
          ELSE \E r \in found :
                  calls' = [calls EXCEPT ![k].pc = "done", ![k].room = r]
    /\ UNCHANGED <<roomOps, rooms, messages, reqs, channels, emitted>>
    /\ UNCHANGED presenceVars
    /\ UNCHANGED opVars

\* create resolved: the new room is stored and is the answer
PrivateCreated(k) ==
    /\ calls[k].pc = "create"
    /\ rooms' = MapSet(rooms, Cardinality(DOMAIN rooms) + 1,
                       PrivateRoom(calls[k].user, CastId(calls[k].other)))
    /\ calls' = [calls EXCEPT ![k].pc = "done",
                              ![k].room = Cardinality(DOMAIN rooms) + 1]
    /\ UNCHANGED <<roomOps, messages, reqs, channels, emitted>>
    /\ UNCHANGED presenceVars
    /\ UNCHANGED opVars

\* One of findOrCreatePrivateChat's awaits rejected: the error handler
\* answers
PrivateFail(k) ==
    /\ calls[k].pc \in {"find", "create"}
    /\ calls' = [calls EXCEPT ![k].pc = "failed"]
    /\ UNCHANGED <<roomOps, rooms, messages, reqs, channels, emitted>>
    /\ UNCHANGED presenceVars
    /\ UNCHANGED opVars

\* addParticipant by user me with body.userId = str, from findById to save,
\* no other request running meanwhile; a refused request stores nothing
AddParticipant(r, me, str) ==
    /\ MapHas(rooms, r)
    /\ rooms[r].type = "group"
    /\ isAdmin(rooms[r].participants, IdString(me))
    /\ EntriesOf(rooms[r].participants, str) = {}
    /\ Len(rooms[r].participants) < MaxParts
    /\ rooms' = [rooms EXCEPT ![r].participants = addParticipant(@, str)]
    /\ UNCHANGED <<roomOps, messages, reqs, channels, emitted>>
    /\ UNCHANGED presenceVars
    /\ UNCHANGED calls
    /\ UNCHANGED opVars

\* removeParticipant by user me with params.userId = str, from findById to
\* save, no other request running meanwhile
RemoveParticipant(r, me, str) ==
    /\ MapHas(rooms, r)
    /\ rooms[r].type = "group"
    /\ str = IdString(me) \/ isAdmin(rooms[r].participants, IdString(me))
    /\ ~(/\ isAdmin(rooms[r].participants, str)
         /\ adminCount(rooms[r].participants) <= 1)
    /\ rooms' = [rooms EXCEPT ![r].participants = removeParticipant(@, str)]
    /\ UNCHANGED <<roomOps, messages, reqs, channels, emitted>>
    /\ UNCHANGED presenceVars
    /\ UNCHANGED calls
    /\ UNCHANGED opVars

\* leaveGroup by user me, from findById to save, no other request running
\* meanwhile
LeaveGroup(r, me) ==
    /\ MapHas(rooms, r)
    /\ rooms[r].type = "group"
    /\ EntriesOf(rooms[r].participants, IdString(me)) # {}
    /\ LET parts == rooms[r].participants
           promoted ==
               IF /\ isAdmin(parts, IdString(me))
                  /\ adminCount(parts) <= 1
                  /\ Len(parts) > 1
               THEN promoteFirstOther(parts, IdString(me))
               ELSE parts
           left == removeParticipant(promoted, IdString(me))
       IN rooms' = [rooms EXCEPT
                       ![r].participants = left,
                       ![r].isActive = IF Len(left) = 0 THEN FALSE ELSE @]
    /\ UNCHANGED <<roomOps, messages, reqs, channels, emitted>>
    /\ UNCHANGED presenceVars
    /\ UNCHANGED calls
    /\ UNCHANGED opVars

\* ------------------------------------------------------------------ Next
Next ==
    \/ \E c \in Conns, u \in Users : Connect(c, u)
    \/ \E c \in Conns : OnlineWriteDone(c)
    \/ \E c \in Conns : OnlineWriteFail(c)
    \/ \E c \in Conns : ClientClose(c)
    \/ \E c \in Conns : OfflineWriteDone(c)
    \/ \E c \in Conns : OfflineWriteFail(c)

Spec == Init /\ [][Next]_vars

\* ------------------------------------------------------- chat scenarios
\* The emissions of sockets 1..n connecting one after the other, each
\* connection handler running to its end before the next socket connects.
RECURSIVE ConnectedLog(_, _)
ConnectedLog(n, owner) ==
    IF n = 0 THEN [ch \in Channels |-> << >>]
    ELSE EmitAll(ConnectedLog(n - 1, owner),
         << Event("user:online", Everyone, n, 1..(n - 1), owner[n], 0),
            Event("users:online", Self(n), n, {n},
                  {owner[d] : d \in 1..n}, 0) >>)

\* The room documents createGroupChat can have stored
GroupRooms ==
    {GroupRoom(participantsList(u, body)) : u \in Users, body \in BodyLists}

RoomStores == UNION {[1..n -> GroupRooms] : n \in 0..NumRooms}

\* The server with every socket connected and its handlers installed, over
\* a room store filled by earlier createGroupChat requests.  User ids are
\* interchangeable, so the first socket's user is called 1.
InitChat ==
    \E owner \in {o \in [Conns -> Users] : o[1] = 1}, store \in RoomStores :
        /\ onlineUsers = owner
        /\ userSockets = [u \in {owner[c] : c \in Conns} |->
                             {c \in Conns : owner[c] = u}]
        /\ pc = [c \in Conns |-> "ready"]
        /\ connected = [c \in Conns |-> TRUE]
        /\ socketUser = owner
        /\ channels = [c \in Conns |-> {UserChannel(owner[c])}]
        /\ disc = [c \in Conns |-> 0]
        /\ offlineWrites = [c \in Conns |-> 0]
        /\ userStatus = [u \in Users |->
                            IF \E c \in Conns : owner[c] = u
                            THEN "online" ELSE "offline"]
        /\ emitted = ConnectedLog(MaxConns, owner)
        /\ wentOnline = [u \in Users |->
                            IF \E c \in Conns : owner[c] = u THEN 1 ELSE 0]
        /\ wentOffline = [u \in Users |-> 0]
        /\ roomOps = [c \in Conns |-> [r \in RoomIds |-> "none"]]
        /\ rooms = store
        /\ messages = << >>
        /\ reqs = [q \in SendIds |-> NoReq]
        /\ serving = TRUE
        /\ ops = [o \in OpIds |-> NoOp]
        /\ clock = 0
        /\ lastRead = [r \in RoomIds |-> [u \in Users |-> 0]]
        /\ calls = [k \in CallIds |-> NoCall]

NextChat ==
    \/ \E c \in Conns : ClientClose(c)
    \/ \E c \in Conns : OfflineWriteDone(c)
    \/ \E c \in Conns : OfflineWriteFail(c)
    \/ \E c \in Conns, r \in RoomIds : RoomJoin(c, r)
    \/ \E c \in Conns, r \in RoomIds : RoomLeave(c, r)
    \/ \E q \in SendIds, c \in Conns, r \in RoomIds : MessageSend(q, c, r)
    \/ \E q \in SendIds : SendRoomFound(q)
    \/ \E q \in SendIds : SendCreated(q)
    \/ \E q \in SendIds : SendRoomSaved(q)
    \/ \E q \in SendIds : SendPopulated(q)
    \/ \E q \in SendIds : SendFail(q)
    \/ \E q \in SendIds : NotifyRoomFound(q)
    \/ \E q \in SendIds : NotifyFail(q)

SpecChat == InitChat /\ [][NextChat]_vars

\* The messages earlier message:send events can have stored in the rooms
SentMessages(store) ==
    {msg \in {NewMessage(r, u) : r \in DOMAIN store, u \in Users} :
        isParticipant(store[msg.chatRoom].participants, msg.sender)}

MessageStores(store) ==
    UNION {[1..n -> SentMessages(store)] : n \in 0..MaxStored}

\* The server with every socket connected and its handlers installed, over
\* a room store and a message store filled by earlier requests.
InitOps ==
    \E owner \in {o \in [Conns -> Users] : o[1] = 1}, store \in RoomStores :
      \E stored \in MessageStores(store) :
        /\ onlineUsers = owner
        /\ userSockets = [u \in {owner[c] : c \in Conns} |->
                             {c \in Conns : owner[c] = u}]
        /\ pc = [c \in Conns |-> "ready"]
        /\ connected = [c \in Conns |-> TRUE]
        /\ socketUser = owner
        /\ channels = [c \in Conns |-> {UserChannel(owner[c])}]
        /\ disc = [c \in Conns |-> 0]
        /\ offlineWrites = [c \in Conns |-> 0]
        /\ userStatus = [u \in Users |->
                            IF \E c \in Conns : owner[c] = u
                            THEN "online" ELSE "offline"]
        /\ emitted = ConnectedLog(MaxConns, owner)
        /\ wentOnline = [u \in Users |->
                            IF \E c \in Conns : owner[c] = u THEN 1 ELSE 0]
        /\ wentOffline = [u \in Users |-> 0]
        /\ roomOps = [c \in Conns |-> [r \in RoomIds |-> "none"]]
        /\ rooms = store
        /\ messages = stored
        /\ reqs = [q \in SendIds |-> NoReq]
        /\ serving = TRUE
        /\ ops = [o \in OpIds |-> NoOp]
        /\ clock = 0
        /\ lastRead = [r \in RoomIds |-> [u \in Users |-> 0]]
        /\ calls = [k \in CallIds |-> NoCall]

\* At most MaxOps client events are received, of whatever kind
NextOps ==
    \/ \E q \in SendIds, c \in Conns, r \in RoomIds :
          Received < MaxOps /\ MessageSend(q, c, r)
    \/ \E q \in SendIds : SendRoomFound(q)
    \/ \E q \in SendIds : SendCreated(q)
    \/ \E q \in SendIds : SendRoomSaved(q)
    \/ \E q \in SendIds : SendPopulated(q)
    \/ \E q \in SendIds : SendFail(q)
    \/ \E q \in SendIds : NotifyRoomFound(q)
    \/ \E q \in SendIds : NotifyFail(q)
    \/ \E o \in OpIds, c \in Conns, m \in MsgIds :
          Received < MaxOps /\ MessageEdit(o, c, m)
    \/ \E o \in OpIds : EditLoaded(o)
    \/ \E o \in OpIds : EditSaved(o)
    \/ \E o \in OpIds : EditPopulated(o)
    \/ \E o \in OpIds : EditFail(o)
    \/ \E o \in OpIds, c \in Conns, m \in MsgIds :
          Received < MaxOps /\ MessageDelete(o, c, m)
    \/ \E o \in OpIds : DeleteLoaded(o)
    \/ \E o \in OpIds : DeleteSaved(o)
    \/ \E o \in OpIds : DeleteFail(o)
    \/ \E o \in OpIds, c \in Conns, r \in RoomIds :
          Received < MaxOps /\ TypingStart(o, c, r)
    \/ \E o \in OpIds, c \in Conns, r \in RoomIds :
          Received < MaxOps /\ TypingStop(o, c, r)
    \/ \E o \in OpIds, c \in Conns, r \in RoomIds :
          Received < MaxOps /\ MessagesRead(o, c, r)
    \/ \E o \in OpIds : ReadRoomFound(o)
    \/ \E o \in OpIds : ReadSaved(o)
    \/ \E o \in OpIds : ReadFail(o)

SpecOps == InitOps /\ [][NextOps]_vars

\* The room store alone: group creation
NextRooms ==
    \E u \in Users, body \in BodyLists : CreateGroupChat(u, body)

SpecRooms == Init /\ [][NextRooms]_vars

\* The client events on sockets that join and leave room channels; at most
\* MaxCasts events besides room:join and room:leave are received
NextCast ==
    \/ \E c \in Conns, r \in RoomIds : RoomJoin(c, r)
    \/ \E c \in Conns, r \in RoomIds : RoomLeave(c, r)
    \/ \E q \in SendIds, c \in Conns, r \in RoomIds :
          Received < MaxCasts /\ MessageSend(q, c, r)
    \/ \E q \in SendIds : SendRoomFound(q)
    \/ \E q \in SendIds : SendCreated(q)
    \/ \E q \in SendIds : SendRoomSaved(q)
    \/ \E q \in SendIds : SendPopulated(q)
    \/ \E q \in SendIds : SendFail(q)
    \/ \E q \in SendIds : NotifyRoomFound(q)
    \/ \E q \in SendIds : NotifyFail(q)
    \/ \E o \in OpIds, c \in Conns, m \in MsgIds :
          Received < MaxCasts /\ MessageEdit(o, c, m)
    \/ \E o \in OpIds : EditLoaded(o)
    \/ \E o \in OpIds : EditSaved(o)
    \/ \E o \in OpIds : EditPopulated(o)
    \/ \E o \in OpIds : EditFail(o)
    \/ \E o \in OpIds, c \in Conns, m \in MsgIds :
          Received < MaxCasts /\ MessageDelete(o, c, m)
    \/ \E o \in OpIds : DeleteLoaded(o)
    \/ \E o \in OpIds : DeleteSaved(o)
    \/ \E o \in OpIds : DeleteFail(o)
    \/ \E o \in OpIds, c \in Conns, r \in RoomIds :
          Received < MaxCasts /\ TypingStart(o, c, r)
    \/ \E o \in OpIds, c \in Conns, r \in RoomIds :
          Received < MaxCasts /\ TypingStop(o, c, r)
    \/ \E o \in OpIds, c \in Conns, r \in RoomIds :
          Received < MaxCasts /\ MessagesRead(o, c, r)
    \/ \E o \in OpIds : ReadRoomFound(o)
    \/ \E o \in OpIds : ReadSaved(o)
    \/ \E o \in OpIds : ReadFail(o)

SpecCast == InitOps /\ [][NextCast]_vars

\* Connections coming and going while rooms are created and a message is
\* sent
NextLive ==
    \/ Next
    \/ NextRooms
    \/ \E q \in SendIds, c \in Conns, r \in RoomIds : MessageSend(q, c, r)
    \/ \E q \in SendIds : SendRoomFound(q)
    \/ \E q \in SendIds : SendCreated(q)
    \/ \E q \in SendIds : SendRoomSaved(q)
    \/ \E q \in SendIds : SendPopulated(q)
    \/ \E q \in SendIds : SendFail(q)
    \/ \E q \in SendIds : NotifyRoomFound(q)
    \/ \E q \in SendIds : NotifyFail(q)

SpecLive == Init /\ [][NextLive]_vars

\* The presence registry with handshakes the middleware refuses
\* The REST requests on chat rooms: private chats as they interleave, group
\* membership requests one at a time
NextRest ==
    \/ \E u \in Users, body \in BodyLists : CreateGroupChat(u, body)
    \/ \E k \in CallIds, u \in Users, str \in RequestIds :
          PrivateChat(k, u, str)
    \/ \E k \in CallIds : PrivateFound(k)
    \/ \E k \in CallIds : PrivateCreated(k)
    \/ \E k \in CallIds : PrivateFail(k)
    \/ \E r \in RestRoomIds, u \in Users, str \in RequestIds :
          AddParticipant(r, u, str)
    \/ \E r \in RestRoomIds, u \in Users, str \in RequestIds :
          RemoveParticipant(r, u, str)
    \/ \E r \in RestRoomIds, u \in Users : LeaveGroup(r, u)

SpecRest == Init /\ [][NextRest]_vars

NextHandshake ==
    \/ Next
    \/ \E c \in Conns, cred \in Credentials, stored \in BOOLEAN :
          HandshakeRefused(c, cred, stored)

SpecHandshake == Init /\ [][NextHandshake]_vars

NextTeardown ==
    \/ Next
    \/ \E c \in Conns : DisconnectAgain(c)

SpecTeardown == Init /\ [][NextTeardown]_vars

\* ================================================================ claims
Log(ch) == emitted[ch]
Last(seq) == seq[Len(seq)]

\* user:online / user:offline broadcasts naming user u
OnlineEvents(u) ==
    {i \in DOMAIN Log(Everyone) :
        Log(Everyone)[i].kind = "user:online" /\ Log(Everyone)[i].user = u}
OfflineEvents(u) ==
    {i \in DOMAIN Log(Everyone) :
        Log(Everyone)[i].kind = "user:offline" /\ Log(Everyone)[i].user = u}

\* sockets whose registration ran and whose disconnect handler did not
LiveSockets(u) ==
    {c \in Conns : pc[c] # "idle" /\ disc[c] = 0 /\ socketUser[c] = u}

\* C1: user:online for U is broadcast only on U's 0 -> 1 connection edge:
\* U never has more user:online broadcasts than registrations that created
\* U's registry entry (several tabs opened at once give one broadcast).
C1_OnlineOnlyOnFirstConnection ==
    \A u \in Users : Cardinality(OnlineEvents(u)) <= wentOnline[u]

\* C2: disconnects that leave U with a connection emit no user:offline and
\* keep U online; every disconnect that removes U's last connection has
\* emitted exactly one user:offline once its handler is through.
C2_OneOfflinePerLastDisconnect ==
    \A u \in Users :
        /\ Cardinality(OfflineEvents(u)) <= wentOffline[u]
        /\ LiveSockets(u) # {} => isUserOnline(u)
        /\ (\A c \in Conns : socketUser[c] = u => offlineWrites[c] = 0)
              => Cardinality(OfflineEvents(u)) = wentOffline[u]

\* C3: isUserOnline(U) holds exactly when U has a connection registered and
\* not yet unregistered; getUserSockets(U) is always a set, holds exactly
\* those connections, and is empty exactly when U is offline.
C3_OnlineIffLiveConnections ==
    \A u \in Users :
        /\ isUserOnline(u) <=> Cardinality(LiveSockets(u)) > 0
        /\ getUserSockets(u) \in SUBSET Conns
        /\ Cardinality(getUserSockets(u)) = Cardinality(LiveSockets(u))
        /\ getUserSockets(u) = {} <=> ~isUserOnline(u)

C3_Witness ==
    \E u \in Users, c \in Conns, d \in Conns :
        /\ socketUser[c] = u /\ disc[c] = 1
        /\ socketUser[d] = u /\ d \in getUserSockets(u)

\* C4: a second run of the disconnect logic for a socket changes neither
\* registry map, starts no status write and emits nothing.
C4_SecondDisconnectIsNoOp ==
    [][\A c \in Conns :
          (disc[c] >= 1 /\ disc'[c] = disc[c] + 1)
             => UNCHANGED <<onlineUsers, userSockets, offlineWrites,
                            userStatus, emitted, wentOffline>>]_vars

C4_Witness ==
    \E c \in Conns, d \in Conns :
        /\ c # d /\ socketUser[c] = socketUser[d]
        /\ disc[c] = 2 /\ disc[d] = 0 /\ pc[d] = "ready" /\ connected[d]

\* C5: the two registry maps agree: a socket id of onlineUsers is in the
\* set of the user it maps to and in no other user's set, and every socket
\* id of a userSockets set is a key of onlineUsers.
C5_RegistryMapsAgree ==
    /\ \A c \in DOMAIN onlineUsers :
          /\ MapHas(userSockets, onlineUsers[c])
          /\ \A u \in DOMAIN userSockets :
                c \in userSockets[u] <=> u = onlineUsers[c]
    /\ \A u \in DOMAIN userSockets : userSockets[u] \subseteq DOMAIN onlineUsers

C5_Witness ==
    \E c \in Conns, d \in Conns :
        /\ disc[c] = 1 /\ ~MapHas(onlineUsers, c)
        /\ MapHas(onlineUsers, d)

\* C6: between handler steps userSockets never maps a user to an empty set:
\* the user entry goes away in the step that removes its last socket.
C6_NoEmptyUserEntry ==
    \A u \in DOMAIN userSockets : userSockets[u] # {}

C6_Witness ==
    \E u \in Users : wentOffline[u] >= 1 /\ ~isUserOnline(u)

\* message:new emissions carrying message m, over all room channels
NewMessageEvents(m) ==
    UNION {{<<r, i>> : i \in {j \in DOMAIN Log(RoomChannel(r)) :
                                /\ Log(RoomChannel(r))[j].kind = "message:new"
                                /\ Log(RoomChannel(r))[j].msg = m}} :
           r \in RoomIds}

Accepted(q) == reqs[q].pc \in {"notifyFind", "notified", "notifySkipped"}

NotificationEvents(u, m) ==
    {i \in DOMAIN Log(UserChannel(u)) :
        /\ Log(UserChannel(u))[i].kind = "notification:message"
        /\ Log(UserChannel(u))[i].msg = m}

\* C8: once notifyParticipants is through for a message, every participant
\* other than the sender has exactly one notification:message for it on
\* the private channel, and nobody has more than one.
C8_NotifyOncePerParticipant ==
    \A q \in SendIds : reqs[q].pc = "notified" =>
        \A u \in Users :
            Cardinality(NotificationEvents(u, reqs[q].msg)) =
                IF /\ isParticipant(reqs[q].doc, u)
                   /\ u # messages[reqs[q].msg].sender
                THEN 1 ELSE 0

\* C9: no notification:message is emitted on the private channel of the
\* sender of the message it announces.
C9_SenderNotNotified ==
    \A u \in Users : \A i \in DOMAIN Log(UserChannel(u)) :
        Log(UserChannel(u))[i].kind = "notification:message"
            => messages[Log(UserChannel(u))[i].msg].sender # u

C9_Witness ==
    \E q \in SendIds, u \in Users :
        /\ reqs[q].pc = "notified"
        /\ isParticipant(reqs[q].doc, messages[reqs[q].msg].sender)
        /\ NotificationEvents(u, reqs[q].msg) # {}

\* C10: an emission on a room channel is delivered to exactly the open
\* sockets whose last room event for that room was room:join; a socket
\* that joined and then left gets nothing.
C10_DeliveredToJoinedOnly ==
    [][\A r \in RoomIds :
          Len(emitted'[RoomChannel(r)]) > Len(emitted[RoomChannel(r)])
             => Last(emitted'[RoomChannel(r)]).to =
                   {d \in Conns : connected[d] /\ roomOps[d][r] = "join"}]_vars

C10_Witness ==
    \E r \in RoomIds, c \in Conns, d \in Conns :
        /\ Log(RoomChannel(r)) # << >>
        /\ c \in Last(Log(RoomChannel(r))).to
        /\ d \notin Last(Log(RoomChannel(r))).to
        /\ connected[d] /\ roomOps[d][r] = "leave"

\* error events on the socket-only channel of socket c
ErrorEvents(c) ==
    {i \in DOMAIN Log(Self(c)) : Log(Self(c))[i].kind = "error"}

RoomLogs == [r \in RoomIds |-> emitted[RoomChannel(r)]]

\* handler o leaves its findById, holding message m of the store
LoadsMessage(o, kind) ==
    /\ ops[o].kind = kind
    /\ ops[o].loaded = NoDoc /\ ops[o].pc \notin {"unused", "rejected"}
    /\ ops'[o] # ops[o]
    /\ ops[o].msg \in DOMAIN messages

\* the step ends handler o with one error event to its socket and changes
\* neither the message store nor a room channel's log
EndsInError(o) ==
    /\ ops'[o].pc = "rejected" /\ ops'[o].at = 0
    /\ emitted'[Self(ops[o].conn)] =
          Append(emitted[Self(ops[o].conn)], ErrorEvent(ops[o].conn))
    /\ messages' = messages
    /\ RoomLogs' = RoomLogs

\* C11: a message:edit by a user other than the message's sender ends with
\* an error event on the acting socket, stores nothing (content, isEdited
\* and editedAt keep their values) and emits no message:edited: no handler
\* of such an edit ever gets past its ownership test.
C11_NonOwnerEditRejected ==
    /\ [][\A o \in OpIds :
            (/\ LoadsMessage(o, "message:edit")
             /\ messages[ops[o].msg].sender # socketUser[ops[o].conn])
                => EndsInError(o)]_vars
    /\ [](\A o \in OpIds :
            (ops[o].kind = "message:edit" /\ ops[o].loaded # NoDoc)
                => ops[o].loaded.sender = socketUser[ops[o].conn])

C11_Witness ==
    \E o \in OpIds :
        /\ ops[o].kind = "message:edit" /\ ops[o].pc = "rejected"
        /\ ops[o].error = "You can only edit your own messages"
        /\ ops[o].msg \in DOMAIN messages
        /\ ~messages[ops[o].msg].isEdited

\* the handlers whose emission went to room r's channel, and whose user
\* they acted for
Emitters(r) ==
    {o \in OpIds : ops[o].at # 0 /\ ops[o].room = r}

\* C12: whatever the event kind, an emission on room R's channel was caused
\* by a socket whose user is a participant of R: the typing, read, edit and
\* delete handlers that emitted, and every message:new, acted for a
\* participant.
C12_EmitterIsParticipant ==
    /\ \A r \in RoomIds : \A o \in Emitters(r) :
          /\ MapHas(rooms, r)
          /\ isParticipant(rooms[r].participants, socketUser[ops[o].conn])
    /\ \A r \in RoomIds : \A i \in DOMAIN Log(RoomChannel(r)) :
          Log(RoomChannel(r))[i].kind = "message:new"
             => /\ MapHas(rooms, r)
                /\ isParticipant(rooms[r].participants,
                                 Log(RoomChannel(r))[i].user)

\* where the message:new of send q stands in its room's log, 0 before it
NewAt(q) ==
    LET log == Log(RoomChannel(reqs[q].room))
        hits == {i \in DOMAIN log : /\ log[i].kind = "message:new"
                                    /\ log[i].msg = reqs[q].msg}
    IN  IF reqs[q].pc = "unused" \/ reqs[q].msg = 0 \/ hits = {} THEN 0
        ELSE CHOOSE i \in hits : TRUE

\* C14: the emissions on one room's channel stand in the order their client
\* events were received: of two handlers that emitted for the same room the
\* one received first emitted first, and a message:send received before a
\* handler has its message:new before that handler's emission.
C14_RoomFanoutInReceiptOrder ==
    /\ \A o1 \in OpIds, o2 \in OpIds :
          (o1 < o2 /\ ops[o1].at # 0 /\ ops[o2].at # 0
              /\ ops[o1].room = ops[o2].room)
             => ops[o1].at < ops[o2].at
    /\ \A o \in OpIds, q \in SendIds :
          (ops[o].at # 0 /\ NewAt(q) # 0 /\ ops[o].room = reqs[q].room)
             => (q \in ops[o].before <=> NewAt(q) < ops[o].at)

\* the handlers that ended in their catch, per socket
RejectedOps(c) == {o \in OpIds : ops[o].pc = "rejected" /\ ops[o].conn = c}
RejectedSends(c) ==
    {q \in SendIds : reqs[q].pc = "rejected" /\ reqs[q].conn = c}

\* C16: a message:send, message:edit, message:delete or messages:read that
\* failed has one error event on its socket's own channel and no other
\* emission: the error events of a socket are as many as its failed
\* actions, a failed action has nothing on a room channel and no
\* notification, and a failed action takes no further step.
C16_OneErrorPerFailedAction ==
    /\ [](\A c \in Conns :
            Cardinality(ErrorEvents(c)) =
               Cardinality(RejectedOps(c)) + Cardinality(RejectedSends(c)))
    /\ [](\A ch \in Channels : \A i \in DOMAIN Log(ch) :
            Log(ch)[i].kind = "error" => \E c \in Conns : ch = Self(c))
    /\ [](\A o \in OpIds : ops[o].pc = "rejected" => ops[o].at = 0)
    /\ [](\A q \in SendIds : reqs[q].pc = "rejected" =>
            /\ NewAt(q) = 0
            /\ reqs[q].msg # 0 =>
                  \A u \in Users : NotificationEvents(u, reqs[q].msg) = {})
    /\ [][\A o \in OpIds : ops[o].pc = "rejected" => ops'[o] = ops[o]]_vars
    /\ [][\A q \in SendIds : reqs[q].pc = "rejected" => reqs'[q] = reqs[q]]_vars

C16_Witness ==
    \E o1 \in OpIds, o2 \in OpIds :
        /\ o1 # o2 /\ ops[o1].conn = ops[o2].conn
        /\ ops[o1].pc = "rejected" /\ ops[o2].pc = "rejected"
        /\ ops[o1].error = "You can only delete your own messages"
        /\ ops[o2].error = "You are not a member of this chat room"

\* C19: a message:delete whose handler loaded an already deleted message
\* ends in an error: it stores no new deletedAt and emits no message:deleted.
C19_DeleteOfDeletedRejected ==
    \A o \in OpIds :
        (/\ ops[o].kind = "message:delete"
         /\ ops[o].loaded # NoDoc /\ ops[o].loaded.isDeleted)
            => /\ ops[o].pc = "rejected" /\ ops[o].at = 0
               /\ messages[ops[o].msg].deletedAt = ops[o].loaded.deletedAt

\* C20: a message:edit by the owner whose handler loads an already deleted
\* message ends with an error event, stores nothing and emits no
\* message:edited; the content of a deleted message no edit was stored for
\* is the placeholder; no edit handler gets past its findById with a
\* deleted message.
C20_EditOfDeletedRejected ==
    /\ [][\A o \in OpIds :
            (/\ LoadsMessage(o, "message:edit")
             /\ messages[ops[o].msg].sender = socketUser[ops[o].conn]
             /\ messages[ops[o].msg].isDeleted)
                => EndsInError(o)]_vars
    /\ [](\A m \in DOMAIN messages :
            (messages[m].isDeleted /\ ~messages[m].isEdited)
                => messages[m].content = DeletedContent)
    /\ [](\A o \in OpIds :
            (ops[o].kind = "message:edit" /\ ops[o].loaded # NoDoc)
                => ~ops[o].loaded.isDeleted)

C20_Witness ==
    \E o \in OpIds :
        /\ ops[o].kind = "message:edit" /\ ops[o].pc = "rejected"
        /\ ops[o].error = "Cannot edit deleted message"
        /\ messages[ops[o].msg].content = DeletedContent
        /\ ~messages[ops[o].msg].isEdited

\* C13: whenever the transport of an admitted socket has closed, at
\* whatever point of its connection handler, the disconnect logic has run
\* for it exactly once and the socket is in neither registry map.
C13_DisconnectRunsExactlyOnce ==
    \A c \in Conns :
        (socketUser[c] # 0 /\ pc[c] # "idle" /\ ~connected[c])
            => /\ disc[c] = 1
               /\ ~MapHas(onlineUsers, c)
               /\ c \notin getUserSockets(socketUser[c])

\* C15: when the room lookup of notifyParticipants fails, that step emits
\* nothing (no notification:message, no error event) and stores nothing;
\* afterwards the message is still stored, still has its one message:new
\* and has no notification.
C15_NotifyFailureIsNoOp ==
    /\ [][\A q \in SendIds :
            (reqs[q].pc = "notifyFind" /\ reqs'[q].pc = "notifySkipped")
                => /\ emitted' = emitted
                   /\ messages' = messages
                   /\ rooms' = rooms]_vars
    /\ [](\A q \in SendIds : reqs[q].pc = "notifySkipped" =>
            /\ reqs[q].msg \in DOMAIN messages
            /\ Cardinality(NewMessageEvents(reqs[q].msg)) = 1
            /\ \A u \in Users : NotificationEvents(u, reqs[q].msg) = {})

C15_Witness ==
    \E q \in SendIds, u \in Users :
        /\ reqs[q].pc = "notifySkipped"
        /\ isParticipant(rooms[reqs[q].room].participants, u)
        /\ u # messages[reqs[q].msg].sender

\* C17: a socket whose status=online write failed is still served like any
\* other: the server keeps accepting connections, and while the socket is
\* open it is in its private channel, has its handlers and got users:online;
\* once it closed, its disconnect handler has run.
C17_OnlineWriteFailureNotFatal ==
    \A c \in Conns : pc[c] = "failed" =>
        /\ serving
        /\ connected[c] =>
              /\ UserChannel(socketUser[c]) \in channels[c]
              /\ \E i \in DOMAIN Log(Self(c)) :
                    Log(Self(c))[i].kind = "users:online"
        /\ ~connected[c] => disc[c] = 1

\* C18: a socket the handshake middleware refused is never a key of
\* onlineUsers nor in a set of userSockets, is in no channel, and nothing
\* was emitted for it or to it.
C18_RefusedNeverRegistered ==
    \A c \in Conns : pc[c] = "refused" =>
        /\ ~MapHas(onlineUsers, c)
        /\ \A u \in DOMAIN userSockets : c \notin userSockets[u]
        /\ channels[c] = {} /\ ~connected[c] /\ socketUser[c] = 0
        /\ Log(Self(c)) = << >>
        /\ \A i \in DOMAIN Log(Everyone) : Log(Everyone)[i].src # c

C18_Witness ==
    \E c \in Conns, d \in Conns :
        /\ pc[c] = "refused" /\ pc[d] = "ready"
        /\ MapHas(onlineUsers, d)
        /\ \E i \in DOMAIN Log(Everyone) : Log(Everyone)[i].kind = "user:online"

\* C21: a notification:message for participant U goes to the sockets U has
\* in the registry when it is emitted, all of them and no other; with none
\* registered it goes to nobody.
C21_NotificationToLiveConnections ==
    [][\A u \in Users :
          Len(emitted'[UserChannel(u)]) > Len(emitted[UserChannel(u)])
             => Last(emitted'[UserChannel(u)]).to = getUserSockets(u)]_vars

\* C22: once the participants of a message were notified, no user with a
\* socket that got the message's message:new has a notification:message
\* for it.
C22_NoNotificationForJoined ==
    \A q \in SendIds : reqs[q].pc = "notified" =>
        \A c \in Log(RoomChannel(reqs[q].room))[NewAt(q)].to :
            NotificationEvents(socketUser[c], reqs[q].msg) = {}

\* C26: a step that emits user:offline for U is taken with U absent from
\* the registry.
C26_OfflineOnlyWhenUnregistered ==
    [][(/\ Len(emitted'[Everyone]) > Len(emitted[Everyone])
        /\ Last(emitted'[Everyone]).kind = "user:offline")
          => ~isUserOnline(Last(emitted'[Everyone]).user)]_vars

\* C27: with no status write pending and none rejected, User.status is
\* 'online' exactly for the users of the registry.
C27_StatusAgreesWithRegistry ==
    (/\ serving
     /\ \A c \in Conns : pc[c] # "awaitOnline" /\ offlineWrites[c] = 0)
        => \A u \in Users : (userStatus[u] = "online") <=> isUserOnline(u)

\* C28: a message:new announces a stored message of its room, a
\* notification:message announces a message that has its message:new, and
\* the step that emits a notification finds the message:new already
\* emitted.
C28_StoredThenNewThenNotified ==
    /\ [](\A r \in RoomIds : \A i \in DOMAIN Log(RoomChannel(r)) :
            Log(RoomChannel(r))[i].kind = "message:new"
               => /\ Log(RoomChannel(r))[i].msg \in DOMAIN messages
                  /\ messages[Log(RoomChannel(r))[i].msg].chatRoom = r)
    /\ [](\A u \in Users : \A i \in DOMAIN Log(UserChannel(u)) :
            NewMessageEvents(Log(UserChannel(u))[i].msg) # {})
    /\ [][\A u \in Users :
            Len(emitted'[UserChannel(u)]) > Len(emitted[UserChannel(u)])
               => NewMessageEvents(Last(emitted'[UserChannel(u)]).msg) # {}]_vars

C28_Witness ==
    \E q \in SendIds, u \in Users :
        /\ reqs[q].pc = "notified"
        /\ reqs[q].msg \in DOMAIN messages
        /\ NewAt(q) # 0
        /\ NotificationEvents(u, reqs[q].msg) # {}
        /\ Log(UserChannel(u))[1].to # {}

\* Connected sockets whose last room:join / room:leave for room r is a join
JoinedSockets(r) ==
    {c \in Conns : connected[c] /\ roomOps[c][r] = "join"}

\* The events sent with socket.to: everybody in the channel but the sender
SocketCasts == {"typing:start", "typing:stop", "messages:read"}

\* C23: a socket whose last request for room R is room:join is in R's
\* channel, participant or not, and every event emitted on R's channel
\* (message:new, message:edited, message:deleted, typing:*, messages:read)
\* reaches every such socket, the sender of a socket.to event excepted.
C23_JoinIsSoftBinding ==
    /\ [](\A c \in Conns, r \in RoomIds :
            roomOps[c][r] = "join" => RoomChannel(r) \in channels[c])
    /\ [][\A r \in RoomIds :
            Len(emitted'[RoomChannel(r)]) > Len(emitted[RoomChannel(r)]) =>
               \A c \in JoinedSockets(r) :
                  \/ c \in Last(emitted'[RoomChannel(r)]).to
                  \/ /\ Last(emitted'[RoomChannel(r)]).kind \in SocketCasts
                     /\ Last(emitted'[RoomChannel(r)]).src = c]_vars

C23_Witness ==
    \E r \in DOMAIN rooms, c \in Conns :
        /\ ~isParticipant(rooms[r].participants, socketUser[c])
        /\ roomOps[c][r] = "join"
        /\ Len(Log(RoomChannel(r))) > 0
        /\ Last(Log(RoomChannel(r))).kind = "message:new"
        /\ c \in Last(Log(RoomChannel(r))).to

\* messages:read events of socket c on room r's channel
ReadEvents(c, r) ==
    {i \in DOMAIN Log(RoomChannel(r)) :
        /\ Log(RoomChannel(r))[i].kind = "messages:read"
        /\ Log(RoomChannel(r))[i].src = c}

\* messages:read requests of socket c for room r whose save resolved
ReadsDone(c, r) ==
    {o \in OpIds : /\ ops[o].kind = "messages:read"
                   /\ ops[o].pc = "done"
                   /\ ops[o].conn = c
                   /\ ops[o].room = r}

\* C24: the step that emits messages:read for room R completes a
\* handleMarkAsRead whose save was awaited, by a participant of R; it
\* leaves that participant's lastRead stored, and the event goes to the
\* sockets joined to R other than the originating one.  A socket has as
\* many messages:read events on R's channel as requests that were saved, so
\* a rejected request emits none.
C24_ReadSavedThenEmitted ==
    /\ [](\A c \in Conns, r \in RoomIds :
            Cardinality(ReadEvents(c, r)) = Cardinality(ReadsDone(c, r)))
    /\ [](\A o \in OpIds :
            (ops[o].kind = "messages:read" /\ ops[o].pc = "rejected")
               => ops[o].at = 0)
    /\ [][\A r \in RoomIds :
            (/\ Len(emitted'[RoomChannel(r)]) > Len(emitted[RoomChannel(r)])
             /\ Last(emitted'[RoomChannel(r)]).kind = "messages:read") =>
               LET e == Last(emitted'[RoomChannel(r)]) IN
                 /\ \E o \in OpIds :
                       /\ ops[o].pc = "readSave" /\ ops'[o].pc = "done"
                       /\ ops[o].room = r /\ ops[o].conn = e.src
                       /\ lastRead'[r][e.user] = ops[o].doc.lastRead
                 /\ isParticipant(rooms[r].participants, e.user)
                 /\ e.to = JoinedSockets(r) \ {e.src}]_vars

C24_Witness ==
    \E o \in OpIds :
        /\ ops[o].kind = "messages:read"
        /\ ops[o].pc = "done"
        /\ ops[o].conn \in JoinedSockets(ops[o].room)
        /\ Log(RoomChannel(ops[o].room))[ops[o].at].to # {}
        /\ lastRead[ops[o].room][socketUser[ops[o].conn]] = ops[o].doc.lastRead

\* A step of handleMarkAsRead that stores lastRead (messages:read)
ReadStores == \E o \in OpIds : ops[o].pc = "readSave" /\ ops'[o].pc = "done"

\* C25 as stated: no step of message:send, message:edit, message:delete,
\* typing:start, typing:stop, room:join or room:leave changes a field of a
\* ChatRoom record.
C25_HandlersLeaveRoomsAlone ==
    [][/\ rooms' = rooms
       /\ ~ReadStores => lastRead' = lastRead]_vars

\* C25 amended: those handlers change no participant list, role, lastRead,
\* type or isActive of a room and store no room; the one field they change
\* is lastMessage, which the save of message:send sets to the new message
\* in the room it was sent to.
C25_OnlyLastMessageChanges ==
    [][/\ DOMAIN rooms' = DOMAIN rooms
       /\ \A r \in DOMAIN rooms :
            /\ rooms'[r].participants = rooms[r].participants
            /\ rooms'[r].type = rooms[r].type
            /\ rooms'[r].isActive = rooms[r].isActive
            /\ rooms'[r].lastMessage # rooms[r].lastMessage =>
                  \E q \in SendIds :
                     /\ reqs[q].pc = "saveRoom" /\ reqs'[q].pc = "populate"
                     /\ reqs[q].room = r
                     /\ rooms'[r].lastMessage = reqs[q].msg
       /\ ~ReadStores => lastRead' = lastRead]_vars

C25_Witness ==
    \E q \in SendIds :
        /\ reqs[q].pc \in {"populate", "notifyFind", "notified"}
        /\ reqs[q].msg # 0
        /\ rooms[reqs[q].room].lastMessage = reqs[q].msg

\* The private rooms whose participants are exactly the users x and y
PairRooms(x, y) ==
    {r \in DOMAIN rooms :
        /\ rooms[r].type = "private"
        /\ {rooms[r].participants[i].user :
               i \in DOMAIN rooms[r].participants} = {x, y}}

\* The two users a received createPrivateChat call is about
CallPair(k) == {calls[k].user, CastId(calls[k].other)}

\* C29: two distinct users have at most one private room, all answered
\* createPrivateChat calls about the same two users name the same room, and
\* a call that names the caller is rejected and no private room holds one
\* user twice.
C29_OnePrivateRoomPerPair ==
    /\ \A x \in Users, y \in Users :
          x # y => Cardinality(PairRooms(x, y)) <= 1
    /\ \A k1 \in CallIds, k2 \in CallIds :
          (/\ calls[k1].pc = "done" /\ calls[k2].pc = "done"
           /\ CallPair(k1) = CallPair(k2))
              => calls[k1].room = calls[k2].room
    /\ \A k \in CallIds :
          (calls[k].pc # "unused" /\ CastId(calls[k].other) = calls[k].user)
              => calls[k].pc = "rejected"
    /\ \A r \in DOMAIN rooms :
          rooms[r].type = "private"
              => rooms[r].participants[1].user # rooms[r].participants[2].user

\* C30: a group room with a participant has an admin, and a group room
\* without participants is inactive.
C30_GroupKeepsAdmin ==
    \A r \in DOMAIN rooms : rooms[r].type = "group" =>
        /\ Len(rooms[r].participants) >= 1
              => adminCount(rooms[r].participants) >= 1
        /\ Len(rooms[r].participants) = 0 => ~rooms[r].isActive

C30_Witness ==
    \E r \in DOMAIN rooms :
        /\ rooms[r].type = "group"
        /\ EntriesOf(rooms[r].participants, IdString(rooms[r].creator)) = {}
        /\ Len(rooms[r].participants) >= 1
        /\ adminCount(rooms[r].participants) >= 1

====
